---- MODULE Spec2Model ----
(***************************************************************************)
(* A model of the post/vote store of lnsp/zwig: models.JSONDatabase and    *)
(* the request handlers that call it.                                      *)
(*                                                                         *)
(* Representation.  Post and vote ids are strings ("" is Go's empty        *)
(* string).  User names and texts are sequences of one-character strings,  *)
(* so that trimming is an operation on them.  A time.Time is a number of   *)
(* clock ticks, TicksPerSecond of them to the second; a float64 rank r is  *)
(* held as the integer r * RankScale, which is exact because every rank    *)
(* the code computes is (ticks / TicksPerMinute)^2 minus an integer.       *)
(***************************************************************************)
EXTENDS Integers, Sequences, FiniteSets, TLC

VARIABLES
    posts,   \* JSONDatabase.posts: the stored posts, in insertion order
    votes,   \* JSONDatabase.votes: the stored votes, in insertion order
    now,     \* the wall clock read by time.Now and time.Since, in ticks
    uuids,   \* how many ids uuid.New has handed out
    ret,     \* the call that returned last: its name, arguments and result
    calls,   \* the calls request handlers are in the middle of, by handler
    file,    \* what the file JSONDatabase.name names holds
    override, \* JSONDatabase.override
    dsPosts, \* the Post entities of the datastore; the key of the k-th is k
    dsVotes, \* the Vote entities of the datastore, in the order of their keys
    dsCalls, \* the SubmitVote calls request handlers are in the middle of
    main     \* the globals posts and votes of the standalone server

vars == <<posts, votes, now, uuids, ret, calls, file, override, dsPosts, dsVotes,
          dsCalls, main>>

----------------------------------------------------------------------------
(* Bounds of the model *)

MaxPosts == 2
MaxVotes == 3
MaxMinutes == 1
MaxListPosts == 2
MaxListVotes == 1
MaxCount == 1
TicksPerSecond == 2
NumHandlers == 3
MaxKarmaPosts == 2
MaxKarmaVotes == 2
MaxSavedPosts == 2
MaxSavedVotes == 1
MaxSavedTicks == 2
MaxThreadPosts == 3
MaxStorePosts == 2
MaxStoreVotes == 3
MaxLimit == 1
MaxStrictPosts == 2
MaxStrictVotes == 3
MaxRacePosts == 1
MaxServerPosts == 2
MaxWebPosts == 2
MaxReadPosts == 2
MaxReadVotes == 1
MaxWebVotes == 2
MaxServerVotes == 3

(* Program constants *)

SecondsPerMinute == 60
MinutesPerHour == 60
HoursPerDay == 24
DefaultListCount == 30
DefaultMinRank == -5

TicksPerMinute == SecondsPerMinute * TicksPerSecond
RankScale == TicksPerMinute * TicksPerMinute
DefaultMaxAge == HoursPerDay * MinutesPerHour * TicksPerMinute

----------------------------------------------------------------------------
(* Values *)

VoteNone == "none"
VoteUp == "upvote"
VoteDown == "downvote"

\* An id generator that hands out the same id every time.
UUIDRepeated(k) == "p0"

\* uuid.New(): the k-th id handed out; distinct for distinct k, never "".
UUID(k) == "p" \o ToString(k)

\* The zero value Post{} that Get returns for an unknown id.
ZeroPost ==
    [ID |-> "", UserID |-> <<>>, TopicID |-> "", Text |-> <<>>,
     Color |-> "", Timestamp |-> 0, Rank |-> 0]

\* The zero value Vote{}, which a slot of db.votes holds before its element
\* is stored.
ZeroVote ==
    [UserID |-> <<>>, PostID |-> "", Upvote |-> FALSE, Timestamp |-> 0]

\* The goroutines net/http serves requests on.
Handlers == 1..NumHandlers

\* A handler that has not been handed a request.
Idle == [pc |-> "idle"]

\* os.Open(db.name) fails: no such file.
NoFile == [kind |-> "none"]

\* strings.TrimSpace, on a sequence of characters.
RECURSIVE TrimLeft(_)
TrimLeft(s) ==
    IF s # <<>> /\ Head(s) = " " THEN TrimLeft(Tail(s)) ELSE s

RECURSIVE TrimRight(_)
TrimRight(s) ==
    IF s # <<>> /\ s[Len(s)] = " " THEN TrimRight(SubSeq(s, 1, Len(s) - 1)) ELSE s

TrimSpace(s) == TrimRight(TrimLeft(s))

----------------------------------------------------------------------------
(* Derived reads of JSONDatabase *)

\* The loop of Get over the posts ps: the first post with the id, or the
\* zero Post.
GetIn(ps, id) ==
    IF \E i \in DOMAIN ps : ps[i].ID = id
    THEN ps[CHOOSE i \in DOMAIN ps :
              /\ ps[i].ID = id
              /\ \A j \in DOMAIN ps : ps[j].ID = id => i <= j]
    ELSE ZeroPost

Get(id) == GetIn(posts, id)

\* A map assignment that keeps the value a key already has.
MapPutFirst(m, k, v) ==
    [x \in (DOMAIN m) \cup {k} |-> IF x \in DOMAIN m THEN m[x] ELSE v]

\* voted[k] = v of a Go map[string]int, as a function on the keys set so far.
MapPut(m, k, v) ==
    [x \in (DOMAIN m) \cup {k} |-> IF x = k THEN v ELSE m[x]]

\* The first loop of CountVotes: scan vs from index i, later entries of a
\* user overwriting earlier ones.
RECURSIVE VotedFrom(_, _, _, _)
VotedFrom(vs, id, i, voted) ==
    IF i > Len(vs) THEN voted
    ELSE VotedFrom(vs, id, i + 1,
            IF vs[i].PostID # id THEN voted
            ELSE IF vs[i].Upvote THEN MapPut(voted, vs[i].UserID, 1)
                 ELSE MapPut(voted, vs[i].UserID, -1))

\* The second loop of CountVotes: the sum of the map's values.
RECURSIVE SumDecisions(_)
SumDecisions(voted) ==
    IF DOMAIN voted = {} THEN 0
    ELSE LET k == CHOOSE x \in DOMAIN voted : TRUE
         IN  voted[k] + SumDecisions([x \in (DOMAIN voted) \ {k} |-> voted[x]])

\* A tally that adds every vote record of the post, superseded ones too.
RECURSIVE CountEveryVote(_, _)
CountEveryVote(vs, id) ==
    IF vs = <<>> THEN 0
    ELSE (IF Head(vs).PostID # id THEN 0 ELSE IF Head(vs).Upvote THEN 1 ELSE -1)
         + CountEveryVote(Tail(vs), id)

CountVotesIn(vs, id) == SumDecisions(VotedFrom(vs, id, 1, <<>>))

CountVotes(id) == CountVotesIn(votes, id)

\* A vote state that is the direction of the first vote of the user on the
\* post.
FirstVoteState(id, user) ==
    LET mine == {i \in DOMAIN votes : votes[i].PostID = id /\ votes[i].UserID = user}
    IN  IF mine = {} THEN VoteNone
        ELSE IF votes[CHOOSE i \in mine : \A j \in mine : i <= j].Upvote
             THEN VoteUp ELSE VoteDown

\* VoteState: the direction of the last vote of the user on the post.
RECURSIVE VoteStateFrom(_, _, _, _)
VoteStateFrom(id, user, i, state) ==
    IF i > Len(votes) THEN state
    ELSE VoteStateFrom(id, user, i + 1,
            IF votes[i].PostID = id /\ votes[i].UserID = user
            THEN (IF votes[i].Upvote THEN VoteUp ELSE VoteDown)
            ELSE state)

VoteState(id, user) == VoteStateFrom(id, user, 1, VoteNone)

\* A karma that leaves out the posts whose net votes are negative.
RECURSIVE KarmaPositiveFrom(_, _, _, _)
KarmaPositiveFrom(ps, vs, user, i) ==
    IF i > Len(ps) THEN 0
    ELSE (IF ps[i].UserID # user \/ CountVotesIn(vs, ps[i].ID) < 0 THEN 0
          ELSE CountVotesIn(vs, ps[i].ID))
         + KarmaPositiveFrom(ps, vs, user, i + 1)

\* Karma: the sum of CountVotes over the posts of the user, from index i.
RECURSIVE KarmaFrom(_, _, _, _)
KarmaFrom(ps, vs, user, i) ==
    IF i > Len(ps) THEN 0
    ELSE (IF ps[i].UserID # user THEN 0 ELSE CountVotesIn(vs, ps[i].ID))
         + KarmaFrom(ps, vs, user, i + 1)

Karma(user) == KarmaFrom(posts, votes, user, 1)

\* A count of the whole thread: the comments and the post they are on.
RECURSIVE CountThreadFrom(_, _, _)
CountThreadFrom(ps, id, i) ==
    IF i > Len(ps) THEN 0
    ELSE (IF ps[i].TopicID = id \/ ps[i].ID = id THEN 1 ELSE 0)
         + CountThreadFrom(ps, id, i + 1)

\* CountComments: the number of posts of ps from index i whose TopicID is id.
RECURSIVE CountCommentsFrom(_, _, _)
CountCommentsFrom(ps, id, i) ==
    IF i > Len(ps) THEN 0
    ELSE (IF ps[i].TopicID = id THEN 1 ELSE 0) + CountCommentsFrom(ps, id, i + 1)

CountComments(id) == CountCommentsFrom(posts, id, 1)

\* Votes: the vote records of the post, in the order of db.votes.
Votes(post) ==
    LET keep(vote) == ~(vote.PostID # post)
    IN  SelectSeq(votes, keep)

----------------------------------------------------------------------------
(* Rank *)

\* time.Since(t), in ticks.
Since(t) == now - t

\* The rank computeRank computes for post id from the votes vs, times
\* RankScale: elapsed*elapsed - votes*votes*votes with elapsed in minutes.
RankValue(ps, vs, id) ==
    LET post == GetIn(ps, id)
        n == CountVotesIn(vs, id)
        elapsed == Since(post.Timestamp)
    IN  elapsed * elapsed - n * n * n * RankScale

\* computeRank's loop "for _, post := range db.posts { ... post.Rank = rank }":
\* post is the loop's copy of the element, so the assignment changes the copy
\* and every element of db.posts keeps the Rank it had.
computeRank(ps, vs, id) ==
    LET rank == RankValue(ps, vs, id)
    IN  [i \in DOMAIN ps |->
            IF ps[i].ID # id THEN ps[i]
            ELSE LET post == [ps[i] EXCEPT !.Rank = rank] IN ps[i]]

----------------------------------------------------------------------------
(* Feed listing *)

\* A filter that lacks the test for comments.
ListKeepsComments(post, maxAge, minRank) ==
    /\ ~(Since(post.Timestamp) > maxAge)
    /\ ~(post.Rank < minRank * RankScale)

\* The three "continue" tests of List's loop: a post is kept when none fires.
ListKeeps(post, maxAge, minRank) ==
    /\ ~(Since(post.Timestamp) > maxAge)
    /\ ~(post.Rank < minRank * RankScale)
    /\ ~(post.TopicID # "")

\* The loop of List: the kept posts, in the order of db.posts.
ListCandidates(maxAge, minRank) ==
    LET keep(post) == ListKeeps(post, maxAge, minRank)
    IN  SelectSeq(posts, keep)

\* The less function List hands to sort.Slice compares the Rank fields:
\* the sort keys of the posts s, in their order.
RankKeys(s) == [i \in DOMAIN s |-> s[i].Rank]

IndexPermutations(n) ==
    {f \in [1..n -> 1..n] : \A i, j \in 1..n : f[i] = f[j] => i = j}

\* sort.Slice(s, less) for a less that is keys[i] < keys[j] on the elements'
\* keys: "The sort is not guaranteed to be stable", so every arrangement of
\* s in which no element precedes one of a smaller key is a possible outcome.
SortSlice(s, keys) ==
    {[i \in 1..Len(s) |-> s[f[i]]] :
        f \in {g \in IndexPermutations(Len(s)) :
                 \A i, j \in 1..Len(s) : i < j => ~(keys[g[j]] < keys[g[i]])}}

\* A List that ends without truncating.
ListReturnsAll(sorted, count) == sorted

\* The end of List: "if len(posts) < count { return posts }; return posts[:count]".
ListTruncate(sorted, count) ==
    IF Len(sorted) < count THEN sorted ELSE SubSeq(sorted, 1, count)

----------------------------------------------------------------------------
(* Comments *)

\* The "continue" test of Comments' loop: a post is kept when it does not fire.
CommentsKeeps(post, id) == ~(post.TopicID # id)

\* The loop of Comments: the kept posts, in the order of db.posts.
CommentsCandidates(id) ==
    LET keep(post) == CommentsKeeps(post, id)
    IN  SelectSeq(posts, keep)

\* Sort keys that put the newest comment first.
NewestFirstKeys(s) == [i \in DOMAIN s |-> 0 - s[i].Timestamp]

\* The less function Comments hands to sort.Slice is Timestamp.Before: the
\* sort keys of the posts s, in their order.
TimestampKeys(s) == [i \in DOMAIN s |-> s[i].Timestamp]

\* Every result Comments(id) can return.
CommentsResults(id) ==
    SortSlice(CommentsCandidates(id), TimestampKeys(CommentsCandidates(id)))

\* Every result List(count, maxAge, minRank) can return.
ListResults(count, maxAge, minRank) ==
    {ListTruncate(sorted, count) :
        sorted \in SortSlice(ListCandidates(maxAge, minRank),
                             RankKeys(ListCandidates(maxAge, minRank)))}

----------------------------------------------------------------------------
(* The JSON file *)

\* Time.Unix(): the whole seconds of a time.
Unix(t) == t \div TicksPerSecond

\* time.Unix(sec, 0).
TimeUnix(sec) == sec * TicksPerSecond

ToJSONPost(post) ==
    [ID |-> post.ID, User |-> post.UserID, Topic |-> post.TopicID,
     Color |-> post.Color, Text |-> post.Text,
     Timestamp |-> Unix(post.Timestamp),
     Votes |-> CountVotes(post.ID), Comments |-> CountComments(post.ID)]

\* A conversion that leaves TopicID at its zero value.
ConvertPostNoTopic(post) ==
    [ID |-> post.ID, UserID |-> post.User, TopicID |-> "", Text |-> post.Text,
     Color |-> post.Color, Timestamp |-> TimeUnix(post.Timestamp), Rank |-> 0]

\* JSONPost.Convert: Rank is not set and holds the zero value.
ConvertPost(post) ==
    [ID |-> post.ID, UserID |-> post.User, TopicID |-> post.Topic,
     Text |-> post.Text, Color |-> post.Color,
     Timestamp |-> TimeUnix(post.Timestamp), Rank |-> 0]

ToJSONVote(vote) ==
    [User |-> vote.UserID, Post |-> vote.PostID, Upvote |-> vote.Upvote,
     Timestamp |-> Unix(vote.Timestamp)]

\* JSONVote.Convert.
ConvertVote(vote) ==
    [PostID |-> vote.Post, UserID |-> vote.User, Upvote |-> vote.Upvote,
     Timestamp |-> TimeUnix(vote.Timestamp)]

\* The dbFileStruct Save encodes from the store.  encoding/json writes and
\* reads back the strings, integers and booleans of the document unchanged,
\* so the file is held as the document.
DBFile ==
    [kind |-> "json",
     Posts |-> [i \in DOMAIN posts |-> ToJSONPost(posts[i])],
     Votes |-> [i \in DOMAIN votes |-> ToJSONVote(votes[i])]]

\* A file json.Decoder cannot decode.
Garbage == [kind |-> "garbage"]

\* recomputeAll: computeRank for every post, from index i.
RECURSIVE recomputeAllFrom(_, _, _)
recomputeAllFrom(ps, vs, i) ==
    IF i > Len(ps) THEN ps
    ELSE recomputeAllFrom(computeRank(ps, vs, ps[i].ID), vs, i + 1)

recomputeAll(ps, vs) == recomputeAllFrom(ps, vs, 1)

----------------------------------------------------------------------------
(* Inputs *)

Users == {<<"a">>, <<"b">>}
OneUser == {<<"a">>}
Texts == {<<"h">>}
Colors == {"blue"}

\* What a request body can hold where a user name or a text is expected.
RawStrings == {<<>>, <<" ">>, <<"a">>, <<" ", "h", " ">>}

\* An id no post has.
UnknownID == "x"

StoredIDs == {posts[i].ID : i \in DOMAIN posts}

\* What a request can hold where a post id is expected.
PostRefs == StoredIDs \cup {UnknownID}

\* The post the standalone server starts with: its id and its user are
\* fresh ids of uuid.New.
WelcomePost ==
    [ID |-> UUID(0), UserID |-> <<"w">>, Text |-> <<"W">>, Color |-> "ff0000",
     Timestamp |-> 0]

\* The last instant the clock of the model reaches.
MaxClock == MaxMinutes * TicksPerMinute

ListCounts == (0..MaxCount) \cup {DefaultListCount}
ListMaxAges == {0, DefaultMaxAge}
ListMinRanks == {DefaultMinRank, 0, 1}

----------------------------------------------------------------------------
(* Operations *)

Init ==
    /\ posts = <<>>
    /\ votes = <<>>
    /\ now = 0
    /\ uuids = 0
    /\ ret = [op |-> "NewJSONDatabase"]
    /\ calls = [h \in Handlers |-> Idle]
    /\ file = NoFile
    /\ override = TRUE
    /\ dsPosts = <<>>
    /\ dsVotes = <<>>
    /\ dsCalls = [h \in Handlers |-> Idle]
    /\ main = [posts |-> <<WelcomePost>>, votes |-> <<>>]

\* A Post that leaves TopicID at its zero value.
PostWithoutTopic(user, text, color, topic) ==
    /\ LET id == UUID(uuids + 1)
       IN  /\ uuids' = uuids + 1
           /\ posts' = Append(posts,
                  [ID |-> id, UserID |-> user, TopicID |-> "", Text |-> text,
                   Color |-> color, Timestamp |-> now, Rank |-> 0])
           /\ ret' = [op |-> "Post", id |-> id]
    /\ UNCHANGED <<votes, now, calls, file, override, dsPosts, dsVotes, dsCalls, main>>

\* JSONDatabase.Post: no argument is checked; the post is appended.
Post(user, text, color, topic) ==
    /\ LET id == UUID(uuids + 1)
       IN  /\ uuids' = uuids + 1
           /\ posts' = Append(posts,
                  [ID |-> id, UserID |-> user, TopicID |-> topic, Text |-> text,
                   Color |-> color, Timestamp |-> now, Rank |-> 0])
           /\ ret' = [op |-> "Post", id |-> id]
    /\ UNCHANGED <<votes, now, calls, file, override, dsPosts, dsVotes, dsCalls, main>>

\* A Vote that puts the new record in the place of the user's earlier
\* records on the post.
VoteReplaces(user, post, upvote) ==
    /\ LET others(vote) == ~(vote.UserID = user /\ vote.PostID = post)
           vs == Append(SelectSeq(votes, others),
                        [UserID |-> user, PostID |-> post,
                         Upvote |-> upvote, Timestamp |-> now])
       IN  /\ votes' = vs
           /\ posts' = computeRank(posts, vs, post)
    /\ ret' = [op |-> "Vote", user |-> user, post |-> post, upvote |-> upvote]
    /\ UNCHANGED <<now, uuids, calls, file, override, dsPosts, dsVotes, dsCalls, main>>

\* JSONDatabase.Vote: the vote is appended, then computeRank(post) runs.
Vote(user, post, upvote) ==
    /\ LET vs == Append(votes, [UserID |-> user, PostID |-> post,
                                Upvote |-> upvote, Timestamp |-> now])
       IN  /\ votes' = vs
           /\ posts' = computeRank(posts, vs, post)
    /\ ret' = [op |-> "Vote", user |-> user, post |-> post, upvote |-> upvote]
    /\ UNCHANGED <<now, uuids, calls, file, override, dsPosts, dsVotes, dsCalls, main>>

\* A List that sorts db.posts itself, with no copy of the posts it keeps.
ListSortsStore(count, maxAge, minRank) ==
    /\ \E sorted \in SortSlice(posts, RankKeys(posts)) :
          /\ posts' = sorted
          /\ ret' = [op |-> "List", count |-> count, maxAge |-> maxAge,
                     minRank |-> minRank, posts |-> ListTruncate(sorted, count)]
    /\ UNCHANGED <<votes, now, uuids, calls, file, override, dsPosts, dsVotes, dsCalls, main>>

\* JSONDatabase.List: filter, sort.Slice by Rank, truncate to count.
List(count, maxAge, minRank) ==
    /\ LET kept == ListCandidates(maxAge, minRank)
       IN  \E sorted \in SortSlice(kept, RankKeys(kept)) :
              ret' = [op |-> "List", count |-> count, maxAge |-> maxAge,
                      minRank |-> minRank, posts |-> ListTruncate(sorted, count)]
    /\ UNCHANGED <<posts, votes, now, uuids, calls, file, override, dsPosts, dsVotes, dsCalls, main>>

\* The clock advances by d ticks.
Tick(d) ==
    /\ now' = now + d
    /\ ret' = [op |-> "Tick"]
    /\ UNCHANGED <<posts, votes, uuids, calls, file, override, dsPosts, dsVotes, dsCalls, main>>

\* JSONDatabase.Comments: filter, sort.Slice by Timestamp.
Comments(id) ==
    /\ \E sorted \in CommentsResults(id) :
          ret' = [op |-> "Comments", id |-> id, posts |-> sorted]
    /\ UNCHANGED <<posts, votes, now, uuids, calls, file, override, dsPosts, dsVotes, dsCalls, main>>

\* JSONDatabase.Save: the file is created and the store encoded into it;
\* when os.Create fails the file is not written.
Save(created) ==
    /\ file' = IF created THEN DBFile ELSE file
    /\ ret' = [op |-> "Save", err |-> ~created]
    /\ UNCHANGED <<posts, votes, now, uuids, calls, override, dsPosts, dsVotes, dsCalls, main>>

\* A Load that tolerates a missing file without emptying the store.
LoadKeepsStore ==
    /\ IF file.kind = "none" /\ override
       THEN UNCHANGED <<posts, votes>> /\ ret' = [op |-> "Load", err |-> FALSE]
       ELSE IF file.kind # "json"
       THEN UNCHANGED <<posts, votes>> /\ ret' = [op |-> "Load", err |-> TRUE]
       ELSE LET ps == [i \in DOMAIN file.Posts |-> ConvertPost(file.Posts[i])]
                vs == [i \in DOMAIN file.Votes |-> ConvertVote(file.Votes[i])]
            IN  /\ votes' = vs
                /\ posts' = recomputeAll(ps, vs)
                /\ ret' = [op |-> "Load", err |-> FALSE]
    /\ UNCHANGED <<now, uuids, calls, file, override, dsPosts, dsVotes, dsCalls, main>>

\* A Load that appends the file's posts and votes to those of the store.
LoadAppends ==
    /\ IF file.kind = "none" /\ override
       THEN posts' = <<>> /\ votes' = <<>> /\ ret' = [op |-> "Load", err |-> FALSE]
       ELSE IF file.kind # "json"
       THEN UNCHANGED <<posts, votes>> /\ ret' = [op |-> "Load", err |-> TRUE]
       ELSE LET ps == [i \in DOMAIN file.Posts |-> ConvertPost(file.Posts[i])]
                vs == [i \in DOMAIN file.Votes |-> ConvertVote(file.Votes[i])]
            IN  /\ votes' = votes \o vs
                /\ posts' = recomputeAll(posts \o ps, votes \o vs)
                /\ ret' = [op |-> "Load", err |-> FALSE]
    /\ UNCHANGED <<now, uuids, calls, file, override, dsPosts, dsVotes, dsCalls, main>>

\* A Load that empties the store before it opens and decodes the file.
LoadClearsFirst ==
    /\ IF file.kind = "none" /\ override
       THEN posts' = <<>> /\ votes' = <<>> /\ ret' = [op |-> "Load", err |-> FALSE]
       ELSE IF file.kind # "json"
       THEN posts' = <<>> /\ votes' = <<>> /\ ret' = [op |-> "Load", err |-> TRUE]
       ELSE LET ps == [i \in DOMAIN file.Posts |-> ConvertPost(file.Posts[i])]
                vs == [i \in DOMAIN file.Votes |-> ConvertVote(file.Votes[i])]
            IN  /\ votes' = vs
                /\ posts' = recomputeAll(ps, vs)
                /\ ret' = [op |-> "Load", err |-> FALSE]
    /\ UNCHANGED <<now, uuids, calls, file, override, dsPosts, dsVotes, dsCalls, main>>

\* JSONDatabase.Load.
Load ==
    /\ IF file.kind = "none" /\ override
       THEN posts' = <<>> /\ votes' = <<>> /\ ret' = [op |-> "Load", err |-> FALSE]
       ELSE IF file.kind # "json"
       THEN UNCHANGED <<posts, votes>> /\ ret' = [op |-> "Load", err |-> TRUE]
       ELSE LET ps == [i \in DOMAIN file.Posts |-> ConvertPost(file.Posts[i])]
                vs == [i \in DOMAIN file.Votes |-> ConvertVote(file.Votes[i])]
            IN  /\ votes' = vs
                /\ posts' = recomputeAll(ps, vs)
                /\ ret' = [op |-> "Load", err |-> FALSE]
    /\ UNCHANGED <<now, uuids, calls, file, override, dsPosts, dsVotes, dsCalls, main>>

----------------------------------------------------------------------------
(* Calls of concurrent request handlers *)

\* JSONDatabase has no lock, so the steps of calls that run on different
\* goroutines interleave.  "db.votes = append(db.votes, v)" is a read of the
\* slice header, a write of the new length and a write of the element; a
\* call's reads and writes race with those of every other call.

\* What another goroutine can find in the slot while the element v is being
\* stored: any of its fields can still hold the zero value.
PartialVotes(v) ==
    {[UserID |-> u, PostID |-> p, Upvote |-> d, Timestamp |-> t] :
        u \in {<<>>, v.UserID}, p \in {"", v.PostID},
        d \in {FALSE, v.Upvote}, t \in {0, v.Timestamp}}

\* Vote, line 306: the header of db.votes is read and the Vote is built.
VoteBegin(h, user, post, upvote) ==
    /\ calls[h].pc = "idle"
    /\ calls' = [calls EXCEPT ![h] =
                    [pc |-> "Vote.len", op |-> "Vote", votes |-> votes,
                     vote |-> [UserID |-> user, PostID |-> post,
                               Upvote |-> upvote, Timestamp |-> now]]]
    /\ UNCHANGED <<posts, votes, now, uuids, ret, file, override, dsPosts, dsVotes, dsCalls, main>>

\* Vote, line 306: the header is written back one longer.  The new slot
\* holds what the memory held, or the element as far as it is stored.
VoteLen(h) ==
    /\ calls[h].pc = "Vote.len"
    /\ LET n == Len(calls[h].votes) + 1
           slots == PartialVotes(calls[h].vote)
                       \cup (IF n \in DOMAIN votes THEN {votes[n]} ELSE {})
       IN  \E slot \in slots : votes' = Append(calls[h].votes, slot)
    /\ calls' = [calls EXCEPT ![h].pc = "Vote.element"]
    /\ UNCHANGED <<posts, now, uuids, ret, file, override, dsPosts, dsVotes, dsCalls, main>>

\* Vote, line 306: the element is stored in the slot.
VoteElement(h) ==
    /\ calls[h].pc = "Vote.element"
    /\ LET n == Len(calls[h].votes) + 1
       IN  votes' = IF n \in DOMAIN votes
                    THEN [votes EXCEPT ![n] = calls[h].vote] ELSE votes
    /\ calls' = [calls EXCEPT ![h].pc = "Vote.computeRank"]
    /\ UNCHANGED <<posts, now, uuids, ret, file, override, dsPosts, dsVotes, dsCalls, main>>

\* Vote, line 312: computeRank(post), and the call returns.
VoteReturn(h) ==
    /\ calls[h].pc = "Vote.computeRank"
    /\ posts' = computeRank(posts, votes, calls[h].vote.PostID)
    /\ calls' = [calls EXCEPT ![h].pc = "returned"]
    /\ ret' = [op |-> "Vote", user |-> calls[h].vote.UserID,
               post |-> calls[h].vote.PostID, upvote |-> calls[h].vote.Upvote]
    /\ UNCHANGED <<votes, now, uuids, file, override, dsPosts, dsVotes, dsCalls, main>>

\* Post, lines 329-330: the id is drawn, the header of db.posts is read and
\* the Post is built.
PostBegin(h, user, text, color, topic) ==
    /\ calls[h].pc = "idle"
    /\ uuids' = uuids + 1
    /\ calls' = [calls EXCEPT ![h] =
                    [pc |-> "Post.append", op |-> "Post", posts |-> posts,
                     post |-> [ID |-> UUID(uuids + 1), UserID |-> user,
                               TopicID |-> topic, Text |-> text, Color |-> color,
                               Timestamp |-> now, Rank |-> 0]]]
    /\ UNCHANGED <<posts, votes, now, ret, file, override, dsPosts, dsVotes, dsCalls, main>>

\* Post, lines 330-340: the header is written back with the post appended,
\* and the call returns the id.
PostReturn(h) ==
    /\ calls[h].pc = "Post.append"
    /\ posts' = Append(calls[h].posts, calls[h].post)
    /\ calls' = [calls EXCEPT ![h].pc = "returned"]
    /\ ret' = [op |-> "Post", id |-> calls[h].post.ID]
    /\ UNCHANGED <<votes, now, uuids, file, override, dsPosts, dsVotes, dsCalls, main>>

\* A handler calls CountVotes(id).
ReadCountVotes(id) ==
    /\ ret' = [op |-> "CountVotes", id |-> id, value |-> CountVotes(id)]
    /\ UNCHANGED <<posts, votes, now, uuids, calls, file, override, dsPosts, dsVotes, dsCalls, main>>

\* A handler calls Karma(user).
ReadKarma(user) ==
    /\ ret' = [op |-> "Karma", user |-> user, value |-> Karma(user)]
    /\ UNCHANGED <<posts, votes, now, uuids, calls, file, override, dsPosts, dsVotes, dsCalls, main>>

\* A handler calls Get(id).
ReadGet(id) ==
    /\ ret' = [op |-> "Get", id |-> id, value |-> Get(id)]
    /\ UNCHANGED <<posts, votes, now, uuids, calls, file, override, dsPosts, dsVotes, dsCalls, main>>

\* A handler calls CountComments(id).
ReadCountComments(id) ==
    /\ ret' = [op |-> "CountComments", id |-> id, value |-> CountComments(id)]
    /\ UNCHANGED <<posts, votes, now, uuids, calls, file, override, dsPosts, dsVotes, dsCalls, main>>

\* A handler calls VoteState(id, user).
ReadVoteState(id, user) ==
    /\ ret' = [op |-> "VoteState", id |-> id, user |-> user, value |-> VoteState(id, user)]
    /\ UNCHANGED <<posts, votes, now, uuids, calls, file, override, dsPosts, dsVotes, dsCalls, main>>

\* A handler calls Votes(post).
ReadVotes(post) ==
    /\ ret' = [op |-> "Votes", id |-> post, value |-> Votes(post)]
    /\ UNCHANGED <<posts, votes, now, uuids, calls, file, override, dsPosts, dsVotes, dsCalls, main>>

\* A handler calls ToJSONPost(Get(id)).
ReadToJSONPost(id) ==
    /\ ret' = [op |-> "ToJSONPost", id |-> id, value |-> ToJSONPost(Get(id))]
    /\ UNCHANGED <<posts, votes, now, uuids, calls, file, override, dsPosts, dsVotes, dsCalls, main>>

----------------------------------------------------------------------------
(* The web handler of the JSON store: package web *)

\* What r.Cookie("user_uid") gives: no such cookie (an error), or a cookie.
NoCookie == [present |-> FALSE, Value |-> <<>>]
Cookies == {NoCookie} \cup {[present |-> TRUE, Value |-> user] : user \in OneUser}

\* What a form of a request can hold in a field.
FormTexts == {<<>>, <<" ">>, <<" ", "h">>}
FormFlags == {"", "1"}

\* authMiddleware.ServeHTTP as Handler.auth(f, true) registers it for /post
\* and /vote: without the cookie the handler runs with auth false and no
\* user, with it the handler runs with auth true and the cookie's value.
authMiddleware(cookie) ==
    IF ~cookie.present
    THEN [auth |-> FALSE, user |-> <<>>]
    ELSE [auth |-> TRUE, user |-> cookie.Value]

\* Handler.post and Handler.vote: where the response redirects to.
redirectURL(keep, topic) ==
    IF keep # "" THEN "/comments?id=" \o topic ELSE "/"

\* A response that redirects with no call of the database.
Redirect(op, auth, url) ==
    /\ ret' = [op |-> op, auth |-> auth, redirect |-> url]
    /\ UNCHANGED <<posts, votes, now, uuids, calls, file, override, dsPosts, dsVotes, dsCalls, main>>

\* A Handler.post that submits the text whatever it holds.
HandlerPostAnyText(cookie, text, color, topic, keep) ==
    LET a == authMiddleware(cookie)
    IN  IF ~a.auth
        THEN Redirect("web.post", FALSE, "/")
        ELSE Post(a.user, text, color, topic)

\* /post: authMiddleware, then Handler.post.
HandlerPost(cookie, text, color, topic, keep) ==
    LET a == authMiddleware(cookie)
    IN  IF ~a.auth
        THEN Redirect("web.post", FALSE, "/")
        ELSE IF TrimSpace(text) = <<>>
             THEN Redirect("web.post", TRUE, redirectURL(keep, topic))
             ELSE Post(a.user, text, color, topic)

\* /vote: authMiddleware, then Handler.vote.
HandlerVote(cookie, upvote, downvote, id, keep, topic) ==
    LET a == authMiddleware(cookie)
    IN  IF ~a.auth
        THEN Redirect("web.vote", FALSE, "/")
        ELSE IF upvote # ""
             THEN Vote(a.user, id, TRUE)
             ELSE IF downvote # ""
                  THEN Vote(a.user, id, FALSE)
                  ELSE Redirect("web.vote", TRUE, redirectURL(keep, topic))

----------------------------------------------------------------------------
(* The standalone server: package main, with its posts and votes in globals *)

\* What the other variants hold, which the standalone server leaves alone.
otherStores == <<posts, votes, now, uuids, calls, file, override, dsPosts, dsVotes, dsCalls>>

\* countVotes: the loop looks at every vote, whatever its PostID, and counts
\* the first vote of each user.
RECURSIVE countVotesFrom(_, _, _, _)
countVotesFrom(vs, i, voted, count) ==
    IF i > Len(vs) THEN count
    ELSE IF vs[i].UserID \in voted
         THEN countVotesFrom(vs, i + 1, voted, count)
         ELSE countVotesFrom(vs, i + 1, voted \cup {vs[i].UserID},
                             IF vs[i].Upvote THEN count + 1 ELSE count - 1)

countVotes(id) == countVotesFrom(main.votes, 1, {}, 0)

\* addPost: post appends a post under a fresh id.
addPost(user, text, color) ==
    LET id == UUID(Len(main.posts))
    IN  /\ main' = [main EXCEPT !.posts = Append(@,
               [ID |-> id, UserID |-> user, Text |-> text, Color |-> color,
                Timestamp |-> now])]
        /\ ret' = [op |-> "addPost", id |-> id]
        /\ UNCHANGED otherStores

\* votePost: vote appends a vote, and the response holds countVotes.
votePost(user, post, upvote) ==
    /\ main' = [main EXCEPT !.votes = Append(@,
           [PostID |-> post, UserID |-> user, Upvote |-> upvote, Timestamp |-> now])]
    /\ ret' = [op |-> "votePost", post |-> post, votes |-> countVotes(post)']
    /\ UNCHANGED otherStores

\* The ids of the posts the standalone server holds.
ServerIDs == {main.posts[i].ID : i \in DOMAIN main.posts}

----------------------------------------------------------------------------
(* The datastore variant: package models on the App Engine datastore *)

\* The datastore is taken to answer every call without error and every
\* query from the entities stored when the query runs.

\* What the servers of the other variants hold, which this one leaves alone.
jsonStore == <<posts, votes, now, uuids, calls, file, override, main>>

\* datastore.Get(c, postKey(c, id), &post) finds an entity.
HasPost(id) == id \in DOMAIN dsPosts

\* A check for a vote of the author on any post.
VotedAnywhere(post, author) ==
    \E i \in DOMAIN dsVotes : dsVotes[i].Author = author

\* HasVotedOn: the count of the Vote entities of the author on the post is
\* above 0.
HasVotedOn(post, author) ==
    Cardinality({i \in DOMAIN dsVotes :
                    dsVotes[i].Author = author /\ dsVotes[i].Post = post}) > 0

\* The loop of NumberOfVotes over the Vote entities vs of post id, from
\* index i.
RECURSIVE NumberOfVotesFrom(_, _, _)
NumberOfVotesFrom(vs, id, i) ==
    IF i > Len(vs) THEN 0
    ELSE (IF vs[i].Post # id THEN 0 ELSE IF vs[i].Upvote THEN 1 ELSE -1)
         + NumberOfVotesFrom(vs, id, i + 1)

NumberOfVotes(id) == NumberOfVotesFrom(dsVotes, id, 1)

\* UpdateRank on the posts ps with the votes vs: the post is read, the votes
\* are counted and the post is put back with Rank set to the count.
UpdateRank(ps, vs, id) ==
    LET post == ps[id]
        num == NumberOfVotesFrom(vs, id, 1)
    IN  [ps EXCEPT ![id] = [post EXCEPT !.Rank = num]]

\* SubmitPost: the parent must exist, author and text are trimmed and must
\* not be empty; the post is put under a new key.
SubmitPost(author, text, color, parent) ==
    /\ IF parent # 0 /\ ~HasPost(parent)
       THEN /\ ret' = [op |-> "SubmitPost", err |-> TRUE]
            /\ UNCHANGED dsPosts
       ELSE IF Len(TrimSpace(author)) < 1 \/ Len(TrimSpace(text)) < 1
       THEN /\ ret' = [op |-> "SubmitPost", err |-> TRUE]
            /\ UNCHANGED dsPosts
       ELSE /\ dsPosts' = Append(dsPosts,
                   [Author |-> TrimSpace(author), Parent |-> parent,
                    Text |-> TrimSpace(text), Color |-> color,
                    Date |-> now, Rank |-> 0])
            /\ ret' = [op |-> "SubmitPost", err |-> FALSE, id |-> Len(dsPosts) + 1]
    /\ UNCHANGED <<dsVotes, dsCalls>>
    /\ UNCHANGED jsonStore

\* SubmitVote, run alone: the post must exist, the author is trimmed and
\* must not be empty and must not have voted on the post; the vote is put
\* and UpdateRank runs.
SubmitVote(author, id, upvote) ==
    /\ IF ~HasPost(id)
       THEN /\ ret' = [op |-> "SubmitVote", err |-> TRUE]
            /\ UNCHANGED <<dsPosts, dsVotes>>
       ELSE IF Len(TrimSpace(author)) < 1
       THEN /\ ret' = [op |-> "SubmitVote", err |-> TRUE]
            /\ UNCHANGED <<dsPosts, dsVotes>>
       ELSE IF HasVotedOn(id, TrimSpace(author))
       THEN /\ ret' = [op |-> "SubmitVote", err |-> TRUE]
            /\ UNCHANGED <<dsPosts, dsVotes>>
       ELSE LET vs == Append(dsVotes,
                         [Post |-> id, Author |-> TrimSpace(author),
                          Upvote |-> upvote, Date |-> now])
            IN  /\ dsVotes' = vs
                /\ dsPosts' = UpdateRank(dsPosts, vs, id)
                /\ ret' = [op |-> "SubmitVote", err |-> FALSE, id |-> Len(vs)]
    /\ UNCHANGED dsCalls
    /\ UNCHANGED jsonStore

\* SubmitVote runs in no transaction, so between its datastore calls those
\* of the SubmitVote calls of other handlers run.

\* SubmitVote, lines 35-42: GetPost and the check of the trimmed author.
SubmitVoteBegin(h, author, id, upvote) ==
    /\ dsCalls[h].pc = "idle"
    /\ IF ~HasPost(id) \/ Len(TrimSpace(author)) < 1
       THEN /\ dsCalls' = [dsCalls EXCEPT ![h] = [pc |-> "returned", err |-> TRUE]]
            /\ ret' = [op |-> "SubmitVote", err |-> TRUE]
       ELSE /\ dsCalls' = [dsCalls EXCEPT ![h] =
                   [pc |-> "HasVotedOn", author |-> TrimSpace(author),
                    id |-> id, upvote |-> upvote]]
            /\ UNCHANGED ret
    /\ UNCHANGED <<dsPosts, dsVotes>>
    /\ UNCHANGED jsonStore

\* SubmitVote, lines 43-47: the query of HasVotedOn.
SubmitVoteCheck(h) ==
    /\ dsCalls[h].pc = "HasVotedOn"
    /\ IF HasVotedOn(dsCalls[h].id, dsCalls[h].author)
       THEN /\ dsCalls' = [dsCalls EXCEPT ![h] = [pc |-> "returned", err |-> TRUE]]
            /\ ret' = [op |-> "SubmitVote", err |-> TRUE]
       ELSE /\ dsCalls' = [dsCalls EXCEPT ![h].pc = "Put"]
            /\ UNCHANGED ret
    /\ UNCHANGED <<dsPosts, dsVotes>>
    /\ UNCHANGED jsonStore

\* SubmitVote, lines 48-58: the vote is put under a new key.
SubmitVotePut(h) ==
    /\ dsCalls[h].pc = "Put"
    /\ dsVotes' = Append(dsVotes,
           [Post |-> dsCalls[h].id, Author |-> dsCalls[h].author,
            Upvote |-> dsCalls[h].upvote, Date |-> now])
    /\ dsCalls' = [dsCalls EXCEPT ![h].pc = "UpdateRank.Get"]
    /\ UNCHANGED <<dsPosts, ret>>
    /\ UNCHANGED jsonStore

\* UpdateRank, lines 142-145: the post is read.
UpdateRankGet(h) ==
    /\ dsCalls[h].pc = "UpdateRank.Get"
    /\ dsCalls' = [dsCalls EXCEPT ![h] =
           [pc |-> "UpdateRank.NumberOfVotes", author |-> dsCalls[h].author,
            id |-> dsCalls[h].id, upvote |-> dsCalls[h].upvote,
            post |-> dsPosts[dsCalls[h].id]]]
    /\ UNCHANGED <<dsPosts, dsVotes, ret>>
    /\ UNCHANGED jsonStore

\* UpdateRank, lines 146-150: the votes are counted.
UpdateRankCount(h) ==
    /\ dsCalls[h].pc = "UpdateRank.NumberOfVotes"
    /\ dsCalls' = [dsCalls EXCEPT ![h] =
           [pc |-> "UpdateRank.Put", author |-> dsCalls[h].author,
            id |-> dsCalls[h].id, upvote |-> dsCalls[h].upvote,
            post |-> [dsCalls[h].post EXCEPT !.Rank = NumberOfVotes(dsCalls[h].id)]]]
    /\ UNCHANGED <<dsPosts, dsVotes, ret>>
    /\ UNCHANGED jsonStore

\* UpdateRank, lines 151-154: the post is put back, and SubmitVote returns.
UpdateRankPut(h) ==
    /\ dsCalls[h].pc = "UpdateRank.Put"
    /\ dsPosts' = [dsPosts EXCEPT ![dsCalls[h].id] = dsCalls[h].post]
    /\ dsCalls' = [dsCalls EXCEPT ![h] = [pc |-> "returned", err |-> FALSE]]
    /\ ret' = [op |-> "SubmitVote", err |-> FALSE]
    /\ UNCHANGED dsVotes
    /\ UNCHANGED jsonStore

\* The keys of the posts of S in the order of the query's index: by Rank,
\* and by key among posts of one Rank.
RECURSIVE OrderByRank(_)
OrderByRank(S) ==
    IF S = {} THEN <<>>
    ELSE LET k == CHOOSE x \in S :
                      \A y \in S :
                          \/ dsPosts[x].Rank < dsPosts[y].Rank
                          \/ dsPosts[x].Rank = dsPosts[y].Rank /\ x <= y
         IN  <<k>> \o OrderByRank(S \ {k})

\* The query of TopPosts: Filter("Parent =", 0).Order("Rank").Limit(limit).
\* The argument rank takes no part in it.
TopPostsQuery(limit, rank) ==
    LET keys == OrderByRank({k \in DOMAIN dsPosts : dsPosts[k].Parent = 0})
    IN  IF Len(keys) < limit THEN keys ELSE SubSeq(keys, 1, limit)

\* TopPosts: the posts the query returns and their ids.
TopPosts(limit, rank) ==
    /\ LET keys == TopPostsQuery(limit, rank)
       IN  ret' = [op |-> "TopPosts", limit |-> limit, rank |-> rank, ids |-> keys,
                   posts |-> [i \in DOMAIN keys |-> dsPosts[keys[i]]]]
    /\ UNCHANGED <<dsPosts, dsVotes, dsCalls>>
    /\ UNCHANGED jsonStore

\* What a request can hold where an author or a text is expected.
StoreAuthors == {<<"a">>, <<" ", "a">>, <<"b">>, <<" ">>}
StoreTexts == {<<"h">>, <<" ">>}

\* What a request can hold where the id of a post is expected: the key of a
\* stored post or a key no post has.
StoreKeys == 1..(Len(dsPosts) + 1)

\* The limit and the minimum rank Handler.list passes, and others.
TopLimits == (1..MaxLimit) \cup {30}
TopRanks == {-10, 0}

----------------------------------------------------------------------------
(* Specifications *)

\* The store under its two mutations and the clock, fed any user of Users and
\* any post id a request can hold.
Next ==
    \/ /\ Len(posts) < MaxPosts
       /\ \E user \in Users, text \in Texts, color \in Colors,
             topic \in {""} \cup PostRefs : Post(user, text, color, topic)
    \/ /\ Len(votes) < MaxVotes
       /\ \E user \in Users, post \in PostRefs, upvote \in BOOLEAN :
             Vote(user, post, upvote)
    \/ \E d \in {TicksPerMinute} : now + d <= MaxClock /\ Tick(d)

Spec == Init /\ [][Next]_vars

\* The store under votes: posts of one author, each top-level or a comment on
\* a stored post, and votes of every user of Users on any post id.  No
\* derived read of the votes looks at a time, so the clock stands still.
NextVotes ==
    \/ /\ Len(posts) < MaxPosts
       /\ \E user \in OneUser, text \in Texts, color \in Colors,
             topic \in {""} \cup StoredIDs : Post(user, text, color, topic)
    \/ /\ Len(votes) < MaxVotes
       /\ \E user \in Users, post \in PostRefs, upvote \in BOOLEAN :
             Vote(user, post, upvote)

SpecVotes == Init /\ [][NextVotes]_vars

\* The store as /api/add feeds it: any strings as user and text.
NextAdd ==
    \/ /\ Len(posts) < MaxPosts
       /\ \E user \in RawStrings, text \in RawStrings, color \in Colors,
             topic \in {""} \cup PostRefs : Post(user, text, color, topic)
    \/ \E d \in {TicksPerMinute} : now + d <= MaxClock /\ Tick(d)

SpecAdd == Init /\ [][NextAdd]_vars

\* The store with the feed listing read between mutations: posts and votes
\* of one user, on stored posts, and the clock.
NextList ==
    \/ /\ Len(posts) < MaxListPosts
       /\ \E user \in OneUser, text \in Texts, color \in Colors,
             topic \in {""} \cup StoredIDs : Post(user, text, color, topic)
    \/ /\ Len(votes) < MaxListVotes
       /\ \E user \in OneUser, post \in StoredIDs, upvote \in BOOLEAN :
             Vote(user, post, upvote)
    \/ \E d \in {TicksPerMinute} : now + d <= MaxClock /\ Tick(d)
    \/ \E count \in ListCounts, maxAge \in ListMaxAges, minRank \in ListMinRanks :
          List(count, maxAge, minRank)

SpecList == Init /\ [][NextList]_vars

\* The store under requests served concurrently: every handler serves one
\* Post or one Vote, step by step, and reads run between the steps.
NextConc ==
    \/ \E h \in Handlers, user \in OneUser, text \in Texts, color \in Colors,
          topic \in {""} \cup StoredIDs : PostBegin(h, user, text, color, topic)
    \/ \E h \in Handlers : PostReturn(h)
    \/ \E h \in Handlers, user \in Users, post \in StoredIDs, upvote \in BOOLEAN :
          VoteBegin(h, user, post, upvote)
    \/ \E h \in Handlers : VoteLen(h)
    \/ \E h \in Handlers : VoteElement(h)
    \/ \E h \in Handlers : VoteReturn(h)
    \/ \E id \in StoredIDs : ReadCountVotes(id)
    \/ \E user \in OneUser : ReadKarma(user)

SpecConc == Init /\ [][NextConc]_vars

\* The store with karma read between mutations: posts of every user of
\* Users, top-level or comments, and votes of every user on stored posts.
NextKarma ==
    \/ /\ Len(posts) < MaxKarmaPosts
       /\ \E user \in Users, text \in Texts, color \in Colors,
             topic \in {""} \cup StoredIDs : Post(user, text, color, topic)
    \/ /\ Len(votes) < MaxKarmaVotes
       /\ \E user \in Users, post \in StoredIDs, upvote \in BOOLEAN :
             Vote(user, post, upvote)
    \/ \E user \in Users : ReadKarma(user)

SpecKarma == Init /\ [][NextKarma]_vars

\* The store with threads read between submissions: posts of one user, each
\* top-level or a comment on any post id, and the clock.
NextThread ==
    \/ /\ Len(posts) < MaxThreadPosts
       /\ \E user \in OneUser, text \in Texts, color \in Colors,
             topic \in {""} \cup PostRefs : Post(user, text, color, topic)
    \/ \E d \in {TicksPerMinute} : now + d <= MaxClock /\ Tick(d)
    \/ \E id \in PostRefs : Comments(id)

SpecThread == Init /\ [][NextThread]_vars

\* The datastore under its calls, one at a time.
NextStore ==
    \/ /\ Len(dsPosts) < MaxStorePosts
       /\ \E author \in StoreAuthors, text \in StoreTexts, color \in Colors,
             parent \in {0} \cup StoreKeys : SubmitPost(author, text, color, parent)
    \/ /\ Len(dsVotes) < MaxStoreVotes
       /\ \E author \in StoreAuthors, id \in StoreKeys, upvote \in BOOLEAN :
             SubmitVote(author, id, upvote)
    \/ \E limit \in TopLimits, rank \in TopRanks : TopPosts(limit, rank)

SpecStore == Init /\ [][NextStore]_vars

\* The datastore under votes, one call at a time: posts of one author and
\* votes of any author on any key.
NextStrict ==
    \/ /\ Len(dsPosts) < MaxStrictPosts
       /\ \E author \in OneUser, text \in Texts, color \in Colors,
             parent \in {0} \cup DOMAIN dsPosts : SubmitPost(author, text, color, parent)
    \/ /\ Len(dsVotes) < MaxStrictVotes
       /\ \E author \in StoreAuthors, id \in StoreKeys, upvote \in BOOLEAN :
             SubmitVote(author, id, upvote)

SpecStrict == Init /\ [][NextStrict]_vars

\* The datastore under requests served concurrently: posts of one author,
\* and every handler serves one SubmitVote, datastore call by datastore call.
NextRace ==
    \/ /\ Len(dsPosts) < MaxRacePosts
       /\ \E author \in OneUser, text \in Texts, color \in Colors :
             SubmitPost(author, text, color, 0)
    \/ \E h \in Handlers, author \in Users, id \in StoreKeys, upvote \in BOOLEAN :
          SubmitVoteBegin(h, author, id, upvote)
    \/ \E h \in Handlers : SubmitVoteCheck(h)
    \/ \E h \in Handlers : SubmitVotePut(h)
    \/ \E h \in Handlers : UpdateRankGet(h)
    \/ \E h \in Handlers : UpdateRankCount(h)
    \/ \E h \in Handlers : UpdateRankPut(h)

SpecRace == Init /\ [][NextRace]_vars

\* The store with every derived read between mutations: posts of one user,
\* top-level or comments, and votes of that user.
NextReads ==
    \/ /\ Len(posts) < MaxReadPosts
       /\ \E user \in OneUser, text \in Texts, color \in Colors,
             topic \in {""} \cup StoredIDs : Post(user, text, color, topic)
    \/ /\ Len(votes) < MaxReadVotes
       /\ \E user \in OneUser, id \in StoredIDs, upvote \in BOOLEAN :
             Vote(user, id, upvote)
    \/ \E id \in PostRefs : ReadGet(id)
    \/ \E count \in ListCounts, maxAge \in {DefaultMaxAge}, minRank \in {DefaultMinRank} :
          List(count, maxAge, minRank)
    \/ \E id \in PostRefs : Comments(id)
    \/ \E id \in PostRefs : ReadCountVotes(id)
    \/ \E id \in PostRefs : ReadCountComments(id)
    \/ \E user \in OneUser : ReadKarma(user)
    \/ \E id \in PostRefs, user \in OneUser : ReadVoteState(id, user)
    \/ \E id \in PostRefs : ReadVotes(id)
    \/ \E id \in PostRefs : ReadToJSONPost(id)

SpecReads == Init /\ [][NextReads]_vars

\* The JSON store behind the web handler: /post and /vote requests with or
\* without the cookie, with any of the form values.
NextWeb ==
    \/ /\ Len(posts) < MaxWebPosts
       /\ \E cookie \in Cookies, text \in FormTexts, color \in Colors,
             topic \in {""} \cup StoredIDs, keep \in FormFlags :
             HandlerPost(cookie, text, color, topic, keep)
    \/ /\ Len(votes) < MaxWebVotes
       /\ \E cookie \in Cookies, upvote \in FormFlags, downvote \in FormFlags,
             id \in PostRefs, keep \in FormFlags :
             HandlerVote(cookie, upvote, downvote, id, keep, "")

SpecWeb == Init /\ [][NextWeb]_vars

\* The standalone server under /add and /vote requests.
NextServer ==
    \/ /\ Len(main.posts) <= MaxServerPosts
       /\ \E user \in Users, text \in Texts, color \in Colors :
             addPost(user, text, color)
    \/ /\ Len(main.votes) < MaxServerVotes
       /\ \E user \in Users, post \in ServerIDs \cup {UnknownID}, upvote \in BOOLEAN :
             votePost(user, post, upvote)

SpecServer == Init /\ [][NextServer]_vars

\* A store constructed with either value of override, on a file that is
\* missing or is not JSON.
InitPersist ==
    /\ posts = <<>>
    /\ votes = <<>>
    /\ now = 0
    /\ uuids = 0
    /\ ret = [op |-> "NewJSONDatabase"]
    /\ calls = [h \in Handlers |-> Idle]
    /\ file \in {NoFile, Garbage}
    /\ override \in BOOLEAN
    /\ dsPosts = <<>>
    /\ dsVotes = <<>>
    /\ dsCalls = [h \in Handlers |-> Idle]
    /\ main = [posts |-> <<WelcomePost>>, votes |-> <<>>]

\* The store with Save and Load between mutations, on a clock that advances
\* by single ticks, so that timestamps fall between whole seconds.  A Load
\* can empty the store, so the posts are bounded by the ids handed out.
NextPersist ==
    \/ /\ uuids < MaxSavedPosts
       /\ \E user \in OneUser, text \in Texts, color \in Colors,
             topic \in {""} \cup StoredIDs : Post(user, text, color, topic)
    \/ /\ Len(votes) < MaxSavedVotes
       /\ \E user \in OneUser, post \in StoredIDs, upvote \in BOOLEAN :
             Vote(user, post, upvote)
    \/ \E d \in {1} : now + d <= MaxSavedTicks /\ Tick(d)
    \/ \E created \in BOOLEAN : Save(created)
    \/ Load

SpecPersist == InitPersist /\ [][NextPersist]_vars

\* The store with Save and Load between mutations, the clock standing still:
\* what Load does to the store does not depend on the time.
NextLoad ==
    \/ /\ uuids < MaxSavedPosts
       /\ \E user \in OneUser, text \in Texts, color \in Colors,
             topic \in {""} \cup StoredIDs : Post(user, text, color, topic)
    \/ /\ Len(votes) < MaxSavedVotes
       /\ \E user \in OneUser, post \in StoredIDs, upvote \in BOOLEAN :
             Vote(user, post, upvote)
    \/ \E created \in BOOLEAN : Save(created)
    \/ Load

SpecLoad == InitPersist /\ [][NextLoad]_vars

----------------------------------------------------------------------------
(* Standing votes, stated on the vote records themselves *)

VotesOn(p) == {i \in DOMAIN votes : votes[i].PostID = p}

Voters(p) == {votes[i].UserID : i \in VotesOn(p)}

\* The index of the vote the user appended last on the post.
LastVoteIndex(u, p) ==
    CHOOSE i \in VotesOn(p) :
        /\ votes[i].UserID = u
        /\ \A j \in VotesOn(p) : votes[j].UserID = u => j <= i

StandingUp(p) == {u \in Voters(p) : votes[LastVoteIndex(u, p)].Upvote}

StandingDown(p) == {u \in Voters(p) : ~votes[LastVoteIndex(u, p)].Upvote}

\* Where a stored post sits in db.posts.
PositionOf(id) == CHOOSE i \in DOMAIN posts : posts[i].ID = id

----------------------------------------------------------------------------
(* Claims *)

\* C1: in every reachable state, CountVotes(p) of every post id p is the
\* number of users whose last appended vote on p is an upvote minus the
\* number of users whose last appended vote on p is a downvote.
C1_NetVotesAreStandingVotes ==
    \A p \in PostRefs :
        CountVotes(p) = Cardinality(StandingUp(p)) - Cardinality(StandingDown(p))

\* A post holds a superseded vote of one user and a vote of another user.
C1_Witness ==
    \E p \in StoredIDs : \E i, j, k \in VotesOn(p) :
        /\ i < j
        /\ votes[i].UserID = votes[j].UserID
        /\ votes[i].Upvote # votes[j].Upvote
        /\ votes[k].UserID # votes[i].UserID

\* C2: a Vote by a user with a standing vote on the post leaves CountVotes of
\* the post unchanged when it repeats the standing direction, and changes it
\* by 2 towards the new direction when it reverses it.
C2_RepeatVoteTally ==
    [][\A u \in Users, p \in PostRefs, d \in BOOLEAN :
          (Vote(u, p, d) /\ u \in Voters(p)) =>
              LET standing == votes[LastVoteIndex(u, p)].Upvote
              IN  CountVotesIn(votes', p) - CountVotes(p) =
                      IF standing = d THEN 0 ELSE IF d THEN 2 ELSE -2]_vars

\* The vote that returned last reversed an earlier vote of its user on a
\* stored post.
C2_Witness ==
    /\ ret.op = "Vote"
    /\ ret.post \in StoredIDs
    /\ \E i \in 1..(Len(votes) - 1) :
          /\ votes[i].UserID = ret.user
          /\ votes[i].PostID = ret.post
          /\ votes[i].Upvote # ret.upvote

\* C3: a vote for an id that matches no stored post is not recorded, so every
\* stored vote's PostID is the ID of a stored post.
C3_VotesReferToStoredPosts ==
    \A i \in DOMAIN votes : votes[i].PostID \in StoredIDs

\* C4: a submission whose author or text is empty after trimming is not
\* stored, so no stored post has a blank author or a blank text.
C4_NoBlankAuthorOrText ==
    \A i \in DOMAIN posts :
        /\ TrimSpace(posts[i].UserID) # <<>>
        /\ TrimSpace(posts[i].Text) # <<>>

\* C5: a submission whose topic matches no stored post is not stored, so the
\* TopicID of every stored comment is the ID of a post stored before it.
C5_TopicExistedAtCreation ==
    \A i \in DOMAIN posts :
        posts[i].TopicID # "" =>
            \E j \in 1..(i - 1) : posts[j].ID = posts[i].TopicID

\* C6: when Vote returns for a stored post, the post's Rank field is
\* elapsed*elapsed - n*n*n for the minutes elapsed since its Timestamp and
\* its CountVotes n.
C6_RankRecomputedOnVote ==
    (ret.op = "Vote" /\ ret.post \in StoredIDs) =>
        Get(ret.post).Rank = RankValue(posts, votes, ret.post)

\* C7: List returns its posts in ascending order of the rank computed from
\* the current state, so of two returned posts of equal age the one with
\* more net votes is not listed after the other.
C7_ListOrderedByCurrentRank ==
    ret.op = "List" =>
        \A i, j \in DOMAIN ret.posts :
            i < j =>
                /\ RankValue(posts, votes, ret.posts[i].ID)
                       <= RankValue(posts, votes, ret.posts[j].ID)
                /\ ret.posts[i].Timestamp = ret.posts[j].Timestamp =>
                       CountVotes(ret.posts[i].ID) >= CountVotes(ret.posts[j].ID)

\* C8: every post List returns has an empty TopicID and an age of at most
\* maxAge, List returns at most count posts, and the Rank values of the
\* returned sequence do not decrease.
C8_ListSafety ==
    ret.op = "List" =>
        /\ Len(ret.posts) <= ret.count
        /\ \A i \in DOMAIN ret.posts :
              /\ ret.posts[i].TopicID = ""
              /\ now - ret.posts[i].Timestamp <= ret.maxAge
        /\ \A i, j \in DOMAIN ret.posts :
              i < j => ret.posts[i].Rank <= ret.posts[j].Rank

\* List returned a post and left out a stored comment that is young enough
\* and ranked high enough to pass the other two tests.
C8_Witness ==
    /\ ret.op = "List"
    /\ Len(ret.posts) = 1
    /\ \E i \in DOMAIN posts :
          /\ posts[i].TopicID # ""
          /\ now - posts[i].Timestamp <= ret.maxAge
          /\ posts[i].Rank >= ret.minRank * RankScale
          /\ now > posts[i].Timestamp

\* The candidates of C9: the stored posts with an empty TopicID, an age of
\* at most maxAge and a Rank of at least minRank.
C9_Candidates ==
    {i \in DOMAIN posts :
        /\ posts[i].TopicID = ""
        /\ now - posts[i].Timestamp <= ret.maxAge
        /\ posts[i].Rank >= ret.minRank * RankScale}

\* C9: List returns min(count, k) of the k candidates, each once: all of
\* them when k < count, and otherwise count of them such that no omitted
\* candidate has a smaller Rank than a returned one.
C9_ListTruncation ==
    ret.op = "List" =>
        LET k == Cardinality(C9_Candidates)
            returned == {PositionOf(ret.posts[i].ID) : i \in DOMAIN ret.posts}
        IN  /\ Len(ret.posts) = IF ret.count < k THEN ret.count ELSE k
            /\ \A i \in DOMAIN ret.posts :
                  /\ ret.posts[i].ID \in StoredIDs
                  /\ ret.posts[i] = posts[PositionOf(ret.posts[i].ID)]
            /\ Cardinality(returned) = Len(ret.posts)
            /\ returned \subseteq C9_Candidates
            /\ \A c \in C9_Candidates \ returned, r \in returned :
                  posts[r].Rank <= posts[c].Rank

\* List returned count posts and left a candidate out.
C9_Witness ==
    /\ ret.op = "List"
    /\ ret.count >= 1
    /\ Len(ret.posts) = ret.count
    /\ Cardinality(C9_Candidates) > ret.count

HoldsRecordOf(h) ==
    IF calls[h].op = "Vote"
    THEN \E i \in DOMAIN votes : votes[i] = calls[h].vote
    ELSE \E i \in DOMAIN posts : posts[i] = calls[h].post

C11_ConcurrentAppendsKept ==
    \A h, g \in Handlers :
        h # g /\ calls[h].pc = "returned" /\ calls[g].pc = "returned"
            => HoldsRecordOf(h) /\ HoldsRecordOf(g)

\* C12: a CountVotes that runs while one Vote is in flight returns the tally
\* of the votes before that Vote or the tally of the votes after it, never
\* the tally of a vote collection the Vote has applied in part.
\* The Vote of handler h is the only call in flight, it has read the votes
\* every earlier call left, and the store holds them and the new slot.
VoteInFlightAlone(h) ==
    /\ calls[h].pc = "Vote.element"
    /\ \A g \in Handlers \ {h} :
          \/ calls[g].pc = "idle"
          \/ calls[g].pc = "returned" /\ calls[g].op = "Post"
          \/ /\ calls[g].pc = "returned" /\ calls[g].op = "Vote"
             /\ \E i \in DOMAIN calls[h].votes : calls[h].votes[i] = calls[g].vote
    /\ Len(votes) = Len(calls[h].votes) + 1
    /\ SubSeq(votes, 1, Len(calls[h].votes)) = calls[h].votes

C12_ReadsSeeWholeVotes ==
    [][\A id \in StoredIDs, h \in Handlers :
          ReadCountVotes(id) /\ VoteInFlightAlone(h)
              => ret'.value \in
                     {CountVotesIn(calls[h].votes, id),
                      CountVotesIn(Append(calls[h].votes, calls[h].vote), id)}]_vars

\* C13: Karma(u) is the sum of the net votes of exactly the stored posts
\* whose UserID is u, comments included: every user standing up on such a
\* post adds one, every user standing down takes one away, and the votes u
\* casts on the posts of others add nothing.
PostsOf(u) == {i \in DOMAIN posts : posts[i].UserID = u}

UpvotesFor(u) ==
    {<<i, v>> \in PostsOf(u) \X Users : v \in StandingUp(posts[i].ID)}

DownvotesFor(u) ==
    {<<i, v>> \in PostsOf(u) \X Users : v \in StandingDown(posts[i].ID)}

C13_KarmaSumsOwnPosts ==
    /\ \A u \in Users :
          Karma(u) = Cardinality(UpvotesFor(u)) - Cardinality(DownvotesFor(u))
    /\ ret.op = "Karma" => ret.value = Karma(ret.user)

\* Karma was read, and is negative, for a user who has written a comment and
\* has voted on a post of another user.
C13_Witness ==
    /\ ret.op = "Karma" /\ ret.value < 0
    /\ \E i \in PostsOf(ret.user) : posts[i].TopicID # ""
    /\ \E j \in DOMAIN votes :
          /\ votes[j].UserID = ret.user
          /\ GetIn(posts, votes[j].PostID).UserID # ret.user

\* The file holds what Save writes from the store as it is.
SavedHere == file = DBFile

\* List, Comments and Karma return after the step what they return before it.
SameReads ==
    /\ \A count \in ListCounts, maxAge \in ListMaxAges, minRank \in ListMinRanks :
          ListResults(count, maxAge, minRank)' = ListResults(count, maxAge, minRank)
    /\ \A id \in PostRefs : CommentsResults(id)' = CommentsResults(id)
    /\ \A user \in Users : Karma(user)' = Karma(user)

\* C14, as claimed: a Load of the file a Save has written from the store
\* leaves every List, Comments and Karma result as it was.
C14_RoundTripIdentical ==
    [][Load /\ SavedHere => SameReads]_vars

WholeSecond(t) == t - (t % TicksPerSecond)

WholeSeconds == \A i \in DOMAIN posts : posts[i].Timestamp = WholeSecond(posts[i].Timestamp)

\* C14, amended: a Load of the file a Save has written from the store gives
\* the same posts and votes in the same order with every Timestamp cut to
\* the whole second; every Karma result is as it was, and so is every List
\* and Comments result when every post's Timestamp is a whole second.
C14_RoundTripWholeSeconds ==
    [][Load /\ SavedHere =>
          /\ posts' = [i \in DOMAIN posts |->
                          [posts[i] EXCEPT !.Timestamp = WholeSecond(@)]]
          /\ votes' = [i \in DOMAIN votes |->
                          [votes[i] EXCEPT !.Timestamp = WholeSecond(@)]]
          /\ \A user \in Users : Karma(user)' = Karma(user)
          /\ WholeSeconds => SameReads]_vars

\* A Load has replaced the store by the file's, which Save wrote from a
\* post made after the first second, a comment and a vote.
C14_Witness ==
    /\ ret.op = "Load" /\ ~ret.err /\ SavedHere /\ WholeSeconds
    /\ \E i \in DOMAIN posts : posts[i].Timestamp > 0
    /\ \E i \in DOMAIN posts : posts[i].TopicID # ""
    /\ votes # <<>>

\* C15: Comments(id) returns exactly the stored posts whose TopicID is id,
\* each once, with Timestamp non-decreasing along the result; of two
\* comments with distinct timestamps the one submitted first comes first.
CommentsOn(id) == {i \in DOMAIN posts : posts[i].TopicID = id}

C15_CommentsExactAndOrdered ==
    ret.op = "Comments" =>
        /\ Len(ret.posts) = Cardinality(CommentsOn(ret.id))
        /\ \A i \in DOMAIN posts :
              i \in CommentsOn(ret.id) <=> \E k \in DOMAIN ret.posts : ret.posts[k] = posts[i]
        /\ \A k, l \in DOMAIN ret.posts :
              k < l => ret.posts[k].Timestamp <= ret.posts[l].Timestamp
        /\ \A i, j \in CommentsOn(ret.id) :
              i < j /\ posts[i].Timestamp # posts[j].Timestamp
                  => \E k, l \in DOMAIN ret.posts :
                        k < l /\ ret.posts[k] = posts[i] /\ ret.posts[l] = posts[j]

\* Comments returned two comments of distinct timestamps and left out a
\* stored post.
C15_Witness ==
    /\ ret.op = "Comments"
    /\ Len(ret.posts) = 2
    /\ ret.posts[1].Timestamp # ret.posts[2].Timestamp
    /\ Len(posts) > 2

\* C16: right after id = Post(user, text, color, topic, nil), Get(id) is a
\* post with that ID, UserID, Text, Color and TopicID, and CountVotes(id)
\* is 0.
C16_PostThenGet ==
    [][\A user \in Users, text \in Texts, color \in Colors,
          topic \in {""} \cup PostRefs :
          Post(user, text, color, topic) =>
              /\ Get(ret.id)' = [ID |-> ret'.id, UserID |-> user, TopicID |-> topic,
                                 Text |-> text, Color |-> color,
                                 Timestamp |-> now, Rank |-> 0]
              /\ CountVotes(ret.id)' = 0]_vars

\* A comment has just been posted on a post that has votes.
C16_Witness ==
    /\ ret.op = "Post"
    /\ Get(ret.id).TopicID \in StoredIDs
    /\ CountVotes(Get(ret.id).TopicID) # 0

\* C17: the id a Post call returns is not the empty string and is the id of
\* no post stored before the call, which are the ids the earlier calls
\* returned; after the call no two stored posts share an ID.
C17_FreshIds ==
    [][Len(posts') > Len(posts) =>
          /\ ret'.op = "Post"
          /\ ret'.id # ""
          /\ ret'.id \notin StoredIDs
          /\ posts'[Len(posts')].ID = ret'.id
          /\ \A i, j \in DOMAIN posts' : posts'[i].ID = posts'[j].ID => i = j]_vars

\* A second Post call has returned.
C17_Witness ==
    /\ ret.op = "Post"
    /\ Len(posts) >= 2
    /\ posts[Len(posts)].ID = ret.id

\* C18: a Vote or Post call leaves the votes and the posts held before it
\* as prefixes of those held after it, every record as it was; a Vote adds
\* one record, also when the user has voted on the post before, and
\* Votes(post) then returns the earlier records followed by the new one.
IsPrefix(s, t) == Len(s) <= Len(t) /\ SubSeq(t, 1, Len(s)) = s

C18_AppendOnly ==
    [][/\ IsPrefix(votes, votes')
       /\ IsPrefix(posts, posts')
       /\ \A user \in Users, post \in PostRefs, upvote \in BOOLEAN :
             Vote(user, post, upvote) =>
                 /\ Len(votes') = Len(votes) + 1
                 /\ posts' = posts
                 /\ Votes(post)' = Append(Votes(post),
                                          [UserID |-> user, PostID |-> post,
                                           Upvote |-> upvote, Timestamp |-> now])
       /\ \A user \in Users, text \in Texts, color \in Colors,
             topic \in {""} \cup PostRefs :
             Post(user, text, color, topic) =>
                 Len(posts') = Len(posts) + 1 /\ votes' = votes]_vars

\* A user has just voted on a post again, in the other direction, and
\* Votes(post) returns both records.
C18_Witness ==
    /\ ret.op = "Vote"
    /\ \E k, l \in DOMAIN Votes(ret.post) :
          /\ k < l /\ l = Len(Votes(ret.post))
          /\ Votes(ret.post)[k].UserID = ret.user
          /\ Votes(ret.post)[l].UserID = ret.user
          /\ Votes(ret.post)[k].Upvote # Votes(ret.post)[l].Upvote

\* C19: VoteState(id, user) is VoteUp when the last vote record of the user
\* on the post is an upvote, VoteDown when it is a downvote and VoteNone
\* when there is none; CountVotes(id) is the number of users whose
\* VoteState is VoteUp less the number whose VoteState is VoteDown.
C19_VoteStateIsLastVote ==
    \A id \in PostRefs :
        /\ \A user \in Users :
              VoteState(id, user) =
                  IF user \notin Voters(id) THEN VoteNone
                  ELSE IF votes[LastVoteIndex(user, id)].Upvote THEN VoteUp
                       ELSE VoteDown
        /\ CountVotes(id) =
              Cardinality({user \in Users : VoteState(id, user) = VoteUp})
                  - Cardinality({user \in Users : VoteState(id, user) = VoteDown})

\* A user stands down on a stored post after an earlier upvote on it, and
\* another user stands up on it.
C19_Witness ==
    \E id \in StoredIDs, user, other \in Users :
        /\ VoteState(id, user) = VoteDown
        /\ \E i \in VotesOn(id) : votes[i].UserID = user /\ votes[i].Upvote
        /\ VoteState(id, other) = VoteUp

\* C20: for the id of a stored post, CountComments(id) is the number of
\* stored posts whose TopicID is id and the length of Comments(id); a Post
\* with topic id adds exactly 1 to it, a Post with another topic and a Vote
\* leave it as it is.
C20_CountComments ==
    [][/\ \A id \in StoredIDs' :
             /\ CountComments(id)' = Cardinality(CommentsOn(id))'
             /\ \A comments \in CommentsResults(id)' :
                   Len(comments) = CountComments(id)'
       /\ \A user \in Users, text \in Texts, color \in Colors,
             topic \in {""} \cup PostRefs :
             Post(user, text, color, topic) =>
                 \A id \in StoredIDs :
                     CountComments(id)' =
                         CountComments(id) + (IF topic = id THEN 1 ELSE 0)
       /\ \A user \in Users, post \in PostRefs, upvote \in BOOLEAN :
             Vote(user, post, upvote) =>
                 \A id \in StoredIDs : CountComments(id)' = CountComments(id)]_vars

\* A vote has just been cast on a stored post that has a comment.
C20_Witness ==
    /\ ret.op = "Vote"
    /\ ret.post \in StoredIDs
    /\ CountComments(ret.post) = 1
    /\ \E comments \in CommentsResults(ret.post) : Len(comments) = 1

\* C21: a Load that cannot open the file returns no error and leaves the
\* store with no posts and no votes when override is set, and returns an
\* error when it is not.
C21_LoadWithoutFile ==
    [][Load /\ file = NoFile =>
          IF override
          THEN ~ret'.err /\ posts' = <<>> /\ votes' = <<>>
          ELSE ret'.err]_vars

\* A Load with override set has found no file and emptied a store that held
\* a post.
C21_Witness ==
    /\ ret.op = "Load" /\ ~ret.err
    /\ file = NoFile /\ override
    /\ uuids > 0 /\ posts = <<>>

\* C22: a Load that succeeds on a snapshot leaves in the store exactly the
\* snapshot's posts and votes, in the snapshot's order, whatever the store
\* held before; a second Load of the snapshot changes nothing.
SnapshotPost(post) ==
    [ID |-> post.ID, UserID |-> post.User, TopicID |-> post.Topic,
     Text |-> post.Text, Color |-> post.Color,
     Timestamp |-> post.Timestamp * TicksPerSecond, Rank |-> 0]

SnapshotVote(vote) ==
    [UserID |-> vote.User, PostID |-> vote.Post, Upvote |-> vote.Upvote,
     Timestamp |-> vote.Timestamp * TicksPerSecond]

HoldsSnapshot ==
    /\ Len(posts) = Len(file.Posts)
    /\ \A i \in DOMAIN posts : posts[i] = SnapshotPost(file.Posts[i])
    /\ Len(votes) = Len(file.Votes)
    /\ \A i \in DOMAIN votes : votes[i] = SnapshotVote(file.Votes[i])

C22_LoadReplaces ==
    [][Load /\ file.kind = "json" =>
          /\ ~ret'.err
          /\ HoldsSnapshot'
          /\ HoldsSnapshot => posts' = posts /\ votes' = votes]_vars

\* A Load has put a snapshot of one post in the place of a store that held
\* more posts and a vote.
C22_Witness ==
    /\ ret.op = "Load" /\ ~ret.err
    /\ file.kind = "json" /\ HoldsSnapshot
    /\ Len(posts) = 1 /\ uuids > 1 /\ votes = <<>>

\* C29: a Load that fails, for a missing file without override or for a file
\* that is not a snapshot, returns an error and leaves the posts and the
\* votes as they were.
C29_FailedLoadKeepsStore ==
    [][Load /\ (file = Garbage \/ (file = NoFile /\ ~override)) =>
          ret'.err /\ posts' = posts /\ votes' = votes]_vars

\* A Load has failed on a store that holds a post and a vote.
C29_Witness ==
    /\ ret.op = "Load" /\ ret.err
    /\ posts # <<>> /\ votes # <<>>

\* C23: a SubmitVote for a stored post by an author who has a stored vote
\* on it returns an error, stores no vote and leaves the posts, their Rank
\* included, as they were; by an author who has none it succeeds and
\* stores the vote.
VotesBy(author, id) ==
    {i \in DOMAIN dsVotes : dsVotes[i].Post = id /\ dsVotes[i].Author = author}

C23_SecondVoteRejected ==
    [][\A author \in StoreAuthors, id \in DOMAIN dsPosts, upvote \in BOOLEAN :
          SubmitVote(author, id, upvote) /\ TrimSpace(author) # <<>> =>
              IF VotesBy(TrimSpace(author), id) # {}
              THEN ret'.err /\ dsVotes' = dsVotes /\ dsPosts' = dsPosts
              ELSE /\ ~ret'.err
                   /\ dsVotes' = Append(dsVotes,
                          [Post |-> id, Author |-> TrimSpace(author),
                           Upvote |-> upvote, Date |-> now])]_vars

\* A SubmitVote has been rejected for an author who has a vote on the post,
\* while another author has voted on it too.
C23_Witness ==
    /\ ret.op = "SubmitVote" /\ ret.err
    /\ \E id \in DOMAIN dsPosts :
          /\ VotesBy(<<"a">>, id) # {} /\ VotesBy(<<"b">>, id) # {}
          /\ dsPosts[id].Rank # 0

\* C24: TopPosts(limit, rank) returns at most limit posts, all of them
\* top-level and of a Rank not below rank, in ascending order of Rank.
C24_TopPostsAboveMinimum ==
    ret.op = "TopPosts" =>
        /\ Len(ret.posts) <= ret.limit
        /\ \A i \in DOMAIN ret.posts :
              ret.posts[i].Parent = 0 /\ ~(ret.posts[i].Rank < ret.rank)
        /\ \A i, j \in DOMAIN ret.posts :
              i < j => ret.posts[i].Rank <= ret.posts[j].Rank

\* C25: once every SubmitVote call has returned, the stored Rank of every
\* post is NumberOfVotes of the post.
NoSubmitVoteInFlight ==
    \A h \in Handlers : dsCalls[h].pc \in {"idle", "returned"}

C25_RankIsNumberOfVotes ==
    NoSubmitVoteInFlight =>
        \A id \in DOMAIN dsPosts : dsPosts[id].Rank = NumberOfVotes(id)

\* C26: no author has more than one stored Vote entity on a post.
C26_OneVotePerAuthor ==
    \A id \in DOMAIN dsPosts, author \in Users :
        Cardinality(VotesBy(author, id)) <= 1

\* C27: a vote cast on a post q leaves the net vote count of every other
\* post p unchanged, for JSONDatabase.CountVotes and for countVotes of the
\* standalone server.
DatabaseVoteIsolated ==
    \A q \in StoredIDs \cup {UnknownID} :
        (/\ Len(votes') = Len(votes) + 1
         /\ votes'[Len(votes')].PostID = q)
        => \A p \in StoredIDs \ {q} : CountVotes(p)' = CountVotes(p)

ServerVoteIsolated ==
    \A q \in ServerIDs \cup {UnknownID} :
        (/\ Len(main.votes') = Len(main.votes) + 1
         /\ main.votes'[Len(main.votes')].PostID = q)
        => \A p \in ServerIDs \ {q} : countVotes(p)' = countVotes(p)

C27_DatabaseVoteIsolation == [][DatabaseVoteIsolated]_vars

C27_VoteIsolation == [][DatabaseVoteIsolated /\ ServerVoteIsolated]_vars

\* C28: a /post request changes the posts and votes only if it carries the
\* user_uid cookie and a text that is not blank, and a /vote request only if
\* it carries the cookie and a non-empty upvote or downvote value.
PostRequestGuarded ==
    \A cookie \in Cookies, text \in FormTexts, color \in Colors,
       topic \in {""} \cup StoredIDs, keep \in FormFlags :
        (/\ HandlerPost(cookie, text, color, topic, keep)
         /\ ~(cookie.present /\ TrimSpace(text) # <<>>))
        => UNCHANGED <<posts, votes>>

VoteRequestGuarded ==
    \A cookie \in Cookies, upvote \in FormFlags, downvote \in FormFlags,
       id \in PostRefs, keep \in FormFlags :
        (/\ HandlerVote(cookie, upvote, downvote, id, keep, "")
         /\ ~(cookie.present /\ (upvote # "" \/ downvote # "")))
        => UNCHANGED <<posts, votes>>

C28_RequestsGuarded == [][PostRequestGuarded /\ VoteRequestGuarded]_vars

\* A request without the cookie was redirected while the store holds a post
\* and a vote.
C28_Witness ==
    /\ ret.op \in {"web.post", "web.vote"}
    /\ ~ret.auth
    /\ Len(posts) > 0
    /\ Len(votes) > 0

\* C30: every derived read (Get, List, Comments, CountVotes, CountComments,
\* Karma, VoteState, Votes, ToJSONPost) leaves db.posts and db.votes as they
\* were, the order of db.posts included, so reads after it see the same store.
DerivedReads ==
    {"Get", "List", "Comments", "CountVotes", "CountComments", "Karma",
     "VoteState", "Votes", "ToJSONPost"}

C30_ReadsLeaveStore ==
    [][ret'.op \in DerivedReads =>
          /\ posts' = posts
          /\ votes' = votes
          /\ \A id \in PostRefs :
                /\ Get(id)' = Get(id)
                /\ CountVotes(id)' = CountVotes(id)
                /\ CommentsResults(id)' = CommentsResults(id)]_vars

\* List returned two posts of a store that also holds a vote.
C30_Witness ==
    /\ ret.op = "List"
    /\ Len(ret.posts) = 2
    /\ Len(votes) > 0

====
